---- MODULE Spec2Model ----
(***************************************************************************)
(* A model of joerd/command.py: the queue worker (joerd_server and         *)
(* _download), the eviction routine (_make_space), the two enqueuers, the  *)
(* chunk-size heuristic and the download resolution of Joerd.process.      *)
(* Each component has its own specification over the shared variable list; *)
(* the variables of the other components stay at their parked values.      *)
(***************************************************************************)
EXTENDS Integers, Sequences, FiniteSets, TLC

VARIABLES
    \* ---- queue worker (joerd_server, _download)
    msg_body,      \* message id -> body text of the message
    msg_state,     \* message id -> "visible" | "inflight" | "deleted"
    srv_pc,        \* "poll" | "handle" | "unpack" | "crashed"
    srv_batch,     \* messages of the current receive_messages() still to handle
    delivery,      \* what happened to the message being (or last) handled
    \* ---- eviction (_make_space)
    superfluous,   \* the shared Array of paths; "" is a cleared slot
    present,       \* paths that are files on disk
    stuck,         \* files os.remove cannot remove
    fsize,         \* path -> os.path.getsize of the file
    free,          \* free bytes of the filesystem, as df reports them
    lock,          \* holder of the Array's lock, 0 when free
    wk,            \* worker -> locals of its _make_space call
    calls,         \* _make_space calls made so far
    audit,         \* removals tried per slot, sizes counted per path
    \* ---- enqueuers (joerd_enqueuer, joerd_enqueue_downloads)
    enq_which,     \* which of the two functions runs
    enq_jobs,      \* the jobs (or downloads), in iteration order
    enq_pos,       \* jobs the for loop has taken
    enq_batch,     \* batch
    enq_idx,       \* idx
    enq_sent,      \* the queue.send_messages calls made, in order
    enq_pc,        \* "loop" | "final" | "done"
    \* ---- chunk size (Joerd._chunksize)
    cs_chunksize,  \* self.chunksize
    cs_num_threads,\* self.num_threads
    cs_call,       \* the last call: its argument and what it returned
    \* ---- download resolution (Joerd.process)
    pr_pc,         \* "resolve" | "need" | "superfluous" | "done"
    pr_tiles,      \* number of generated tiles; tile k is tiles[k]
    pr_returned,   \* tile -> source -> what downloads_for returned
    pr_set_sources,\* tile -> the arguments of the set_sources calls on it
    pr_downloads,  \* downloads
    pr_need,       \* [on_disk |-> need_on_disk, to_download |-> need_to_download]
    pr_superfluous,\* superfluous, the list handed to the pool
    pr_index,      \* source -> get_index() calls made on it
    pr_early,      \* a downloads_for call came before some get_index call
    \* ---- render jobs (_render)
    rn_tiles,      \* number of tiles handed to Pool.map
    rn_outcomes,   \* how the _render calls so far ended, in order
    rn,            \* the _render call under way (or just ended)
    \* ---- progress logging (ProgressLogger)
    pl,            \* the fields of a ProgressLogger
    pl_now,        \* time.time()
    pl_call,       \* the last increment call: what it saw and did
    \* ---- several queue workers on one queue (joerd_server processes)
    fl_kind,       \* message -> what its download does
    fl_state,      \* message -> "visible", "inflight" or "deleted"
    fl_w,          \* worker -> where its joerd_server is
    fl_done,       \* message -> some _download of it has returned
    fl_crashes     \* worker processes killed so far

serverVars == <<msg_body, msg_state, srv_pc, srv_batch, delivery>>

spaceVars == <<superfluous, present, stuck, fsize, free, lock, wk, calls,
              audit>>

enqVars == <<enq_which, enq_jobs, enq_pos, enq_batch, enq_idx, enq_sent, enq_pc>>

chunkVars == <<cs_chunksize, cs_num_threads, cs_call>>

procVars == <<pr_pc, pr_tiles, pr_returned, pr_set_sources, pr_downloads,
              pr_need, pr_superfluous, pr_index, pr_early>>

renderVars == <<rn_tiles, rn_outcomes, rn>>

progVars == <<pl, pl_now, pl_call>>

fleetVars == <<fl_kind, fl_state, fl_w, fl_done, fl_crashes>>

restVars == <<renderVars, progVars, fleetVars>>

vars == <<serverVars, spaceVars, enqVars, chunkVars, procVars, restVars>>

\* ---------------------------------------------------------------- bounds
MaxMsgs == 2       \* messages on the queue
ErrWrap == 2       \* logger.error calls of one _download are counted modulo this
MaxSup == 3        \* length of the superfluous list
MaxFree == 2       \* free bytes on the disk at the start
MaxCalls == 2      \* _make_space calls in one run
MaxJobs == 25      \* jobs handed to an enqueuer
MaxThreads == 4    \* cfg.num_threads
MaxLength == 100   \* jobs handed to Pool.map
MaxTiles == 2      \* tiles the outputs generate
MaxUrls == 2       \* urls of one download
MaxFleetMsgs == 3  \* messages in the queue the workers share
MaxCrashes == 1    \* worker processes killed from outside
MaxTotal == 20     \* total of a ProgressLogger
MaxAmount == 2     \* amount of one increment
MaxTime == 4       \* seconds the clock runs
MaxRender == 4     \* tiles handed to the render pool

\* ------------------------------------------------------------- helpers
None == "None"

Range(s) == {s[i] : i \in DOMAIN s}

\* Sequences without repetition over the set S.
RECURSIVE Perms(_)
Perms(S) ==
    IF S = {} THEN {<<>>}
    ELSE UNION {{<<x>> \o p : p \in Perms(S \ {x})} : x \in S}

Arrangements(S) == UNION {Perms(T) : T \in SUBSET S}

\* =========================================================== queue worker
MsgIds == 1..MaxMsgs

\* The source types of cfg.sources, the keys of Joerd.sources.
SourceTypes == {"srtm"}

\* Message bodies a queue can hold: anything a producer put there.
Bodies == {
    "{\"job\": \"download\", \"data\": {\"type\": \"srtm\"}}",
    "{\"job\": \"download\", \"data\": {\"type\": \"nosuch\"}}",
    "{\"job\": \"download\"}",
    "{\"job\": \"render\"}",
    "{}",
    "[1, 2]",
    "not json" }

\* json.loads(message.body): the parsed value, or ValueError.
json_loads(body) ==
    CASE body = "{\"job\": \"download\", \"data\": {\"type\": \"srtm\"}}" ->
            [raises |-> None, type |-> "dict", job |-> "download",
             has_data |-> TRUE, typ |-> "srtm"]
      [] body = "{\"job\": \"download\", \"data\": {\"type\": \"nosuch\"}}" ->
            [raises |-> None, type |-> "dict", job |-> "download",
             has_data |-> TRUE, typ |-> "nosuch"]
      [] body = "{\"job\": \"download\"}" ->
            [raises |-> None, type |-> "dict", job |-> "download",
             has_data |-> FALSE, typ |-> None]
      [] body = "{\"job\": \"render\"}" ->
            [raises |-> None, type |-> "dict", job |-> "render",
             has_data |-> FALSE, typ |-> None]
      [] body = "{}" ->
            [raises |-> None, type |-> "dict", job |-> None,
             has_data |-> FALSE, typ |-> None]
      [] body = "[1, 2]" ->
            [raises |-> None, type |-> "list", job |-> None,
             has_data |-> FALSE, typ |-> None]
      [] OTHER ->
            [raises |-> "ValueError", type |-> None, job |-> None,
             has_data |-> FALSE, typ |-> None]

\* job.get('job'): only a dict has .get; anything else is an AttributeError.
job_get(job) ==
    IF job.type = "dict" THEN [raises |-> None, value |-> job.job]
    ELSE [raises |-> "AttributeError", value |-> None]

\* data = job['data']; typ = data['type']; j.sources[typ]: the lookups of the
\* try block before rehydrate is reached. Each raises KeyError when absent.
lookup_source(job) ==
    IF ~job.has_data THEN "KeyError"
    ELSE IF job.typ \notin SourceTypes THEN "KeyError"
    ELSE None

NoDelivery ==
    [msg |-> 0, kind |-> None, rehydrate_raised |-> FALSE,
     fetch_raised |-> FALSE, unpack_raised |-> FALSE, exists_failed |-> FALSE,
     completed |-> FALSE, deletes |-> 0, warned |-> FALSE, errors |-> 0,
     finished |-> FALSE, tmps |-> 0, retried |-> FALSE]

\* The for loop of joerd_server moves to its next message, or back to poll.
next_pc(rest) == IF rest = <<>> THEN "poll" ELSE "handle"

\* logger.error(repr(e)) in the except clause of the unpack loop.
log_error(n) == (n + 1) % ErrWrap

ServerParked ==
    /\ msg_body = <<>>
    /\ msg_state = <<>>
    /\ srv_pc = "off"
    /\ srv_batch = <<>>
    /\ delivery = NoDelivery

ServerInit ==
    /\ msg_body \in [MsgIds -> Bodies]
    /\ msg_state = [m \in MsgIds |-> "visible"]
    /\ srv_pc = "poll"
    /\ srv_batch = <<>>
    /\ delivery = NoDelivery

\* queue.receive_messages(): zero or more visible messages, now in flight.
Receive ==
    /\ srv_pc = "poll"
    /\ \E b \in Arrangements({m \in MsgIds : msg_state[m] = "visible"}) :
        /\ srv_batch' = b
        /\ msg_state' = [m \in MsgIds |->
                            IF m \in Range(b) THEN "inflight" ELSE msg_state[m]]
        /\ srv_pc' = next_pc(b)
    /\ UNCHANGED <<msg_body, delivery>>
    /\ UNCHANGED <<spaceVars, enqVars, chunkVars, procVars, restVars>>

\* The queue's visibility timeout: an undeleted message is delivered again.
VisibilityTimeout ==
    /\ \E m \in MsgIds :
        /\ msg_state[m] = "inflight"
        /\ msg_state' = [msg_state EXCEPT ![m] = "visible"]
    /\ UNCHANGED <<msg_body, srv_pc, srv_batch, delivery>>
    /\ UNCHANGED <<spaceVars, enqVars, chunkVars, procVars, restVars>>

\* One iteration of the for loop, up to the unpack loop of _download: decode,
\* dispatch on the job kind, rehydrate, and the fetches of _download.
HandleMessage ==
    /\ srv_pc = "handle"
    /\ LET m    == Head(srv_batch)
           rest == Tail(srv_batch)
           job  == json_loads(msg_body[m])
           d    == [NoDelivery EXCEPT !.msg = m]
       IN  /\ srv_batch' = rest
           /\ \E rehydrate_ok \in BOOLEAN, fetch_ok \in BOOLEAN :
                IF job.raises # None \/ job_get(job).raises # None
                THEN \* outside any try: the exception leaves joerd_server
                     /\ delivery' = [d EXCEPT !.kind = "undecodable"]
                     /\ srv_pc' = "crashed"
                ELSE IF job_get(job).value # "download"
                THEN \* else branch: warn and go on
                     /\ delivery' = [d EXCEPT !.kind = "other",
                                              !.warned = TRUE,
                                              !.finished = TRUE]
                     /\ srv_pc' = next_pc(rest)
                ELSE IF lookup_source(job) # None \/ ~rehydrate_ok
                THEN /\ delivery' = [d EXCEPT !.kind = "download",
                                              !.rehydrate_raised = TRUE,
                                              !.warned = TRUE,
                                              !.finished = TRUE]
                     /\ srv_pc' = next_pc(rest)
                ELSE IF ~fetch_ok
                THEN \* download.get raised: the ExitStack closes what was
                     \* fetched, _download re-raises, server warns
                     /\ delivery' = [d EXCEPT !.kind = "download",
                                              !.fetch_raised = TRUE,
                                              !.warned = TRUE,
                                              !.finished = TRUE]
                     /\ srv_pc' = next_pc(rest)
                ELSE \* tmps = [_get(url) for url in d.urls()]
                     /\ \E n \in 0..MaxUrls :
                            delivery' = [d EXCEPT !.kind = "download",
                                                  !.tmps = n]
                     /\ srv_pc' = "unpack"
    /\ UNCHANGED <<msg_body, msg_state>>
    /\ UNCHANGED <<spaceVars, enqVars, chunkVars, procVars, restVars>>

\* d.unpack raises inside `while True`: the error is logged and, with the
\* _make_space call commented out, the loop goes round to unpack again.
UnpackRaises ==
    /\ srv_pc = "unpack"
    /\ delivery' = [delivery EXCEPT !.unpack_raised = TRUE,
                                    !.retried = delivery.unpack_raised,
                                    !.errors = log_error(delivery.errors)]
    /\ UNCHANGED <<msg_body, msg_state, srv_pc, srv_batch>>
    /\ UNCHANGED <<spaceVars, enqVars, chunkVars, procVars, restVars>>

\* d.unpack returns: break, leave the ExitStack, assert store.exists(...);
\* back in joerd_server, message.delete() or the except clause.
UnpackReturns ==
    /\ srv_pc = "unpack"
    /\ \E exists \in BOOLEAN :
        IF exists
        THEN /\ delivery' = [delivery EXCEPT !.completed = TRUE,
                                             !.deletes = @ + 1,
                                             !.finished = TRUE,
                                             !.tmps = 0,
                                             !.retried = delivery.unpack_raised]
             /\ msg_state' = [msg_state EXCEPT ![delivery.msg] = "deleted"]
        ELSE /\ delivery' = [delivery EXCEPT !.exists_failed = TRUE,
                                             !.warned = TRUE,
                                             !.finished = TRUE,
                                             !.tmps = 0,
                                             !.retried = delivery.unpack_raised]
             /\ UNCHANGED msg_state
    /\ srv_pc' = next_pc(srv_batch)
    /\ UNCHANGED <<msg_body, srv_batch>>
    /\ UNCHANGED <<spaceVars, enqVars, chunkVars, procVars, restVars>>

\* ================================================================ eviction
\* The processes of the Pool.
Workers == {1, 2}

\* Sizes a file can have, in bytes.
FileSizes == {1, 2}

Paths == {"a", "b"}

\* Lists of at most n elements of S.
RECURSIVE SeqsUpTo(_, _)
SeqsUpTo(S, n) ==
    IF n = 0 THEN {<<>>}
    ELSE LET shorter == SeqsUpTo(S, n - 1)
         IN  shorter \cup {<<x>> \o q : x \in S, q \in {r \in shorter : Len(r) = n - 1}}

RECURSIVE SumSeq(_)
SumSeq(q) == IF q = <<>> THEN 0 ELSE Head(q) + SumSeq(Tail(q))

RECURSIVE SumOver(_, _)
SumOver(f, S) ==
    IF S = {} THEN 0
    ELSE LET x == CHOOSE y \in S : TRUE IN f[x] + SumOver(f, S \ {x})

\* The temporary files of a download, each by its size.
TmpLists == {<<>>, <<1>>, <<2>>, <<1, 2>>, <<2, 2>>}

IdleWorker ==
    [pc |-> "idle", tmps |-> <<>>, needed |-> 0, remaining |-> 0, i |-> 0,
     rem0 |-> 0, need0 |-> 0, reclaimable0 |-> 0, nothing_live0 |-> FALSE,
     walked |-> <<>>]

NoAudit == [tried |-> <<>>, sized |-> <<>>]

SpaceParked ==
    /\ superfluous = <<>>
    /\ present = {}
    /\ stuck = {}
    /\ fsize = <<>>
    /\ free = 0
    /\ lock = 0
    /\ wk = <<>>
    /\ calls = 0
    /\ audit = NoAudit

\* The state Joerd.process leaves for the pool: the Array built from the
\* existing files that are not needed, every slot a path of a file on disk.
SpaceInit ==
    /\ superfluous \in SeqsUpTo(Paths, MaxSup)
    /\ present = Paths
    /\ stuck \in SUBSET Paths
    /\ fsize \in [Paths -> FileSizes]
    /\ free \in 0..MaxFree
    /\ lock = 0
    /\ wk = [w \in Workers |-> IdleWorker]
    /\ calls = 0
    /\ audit = [tried |-> [i \in DOMAIN superfluous |-> 0],
                sized |-> [p \in Paths |-> 0]]

\* _remaining_disk(path): the free bytes df reports.
remaining_disk == free

\* What deleting the live entries of the list can free: the sizes of the
\* distinct files they name that are on disk and can be removed.
Reclaimable(list) ==
    SumOver(fsize, {p \in Range(list) : p # "" /\ p \in present /\ p \notin stuck})

\* os.path.getsize(s) followed by os.remove(s) both succeed.
can_remove(s) == s \in present /\ s \notin stuck

\* `if remaining >= needed: return` at the top of the walk.
\* (the same test with > for >=)
enough_strict(remaining, needed) == remaining > needed
enough(remaining, needed) == remaining >= needed

\* `if remaining < needed: raise` after the with block.
\* (the same test with <= for <)
not_enough_or_equal(remaining, needed) == remaining <= needed
not_enough(remaining, needed) == remaining < needed

\* `len(superfluous) and not superfluous[len(superfluous) - 1]`
nothing_superfluous(list) == Len(list) # 0 /\ list[Len(list)] = ""

\* `superfluous[i] = ''`
\* (the same walk leaving the slot as it is)
clear_nothing(list, i) == list
clear(list, i) == [list EXCEPT ![i] = ""]

\* `for i in range(len(superfluous))`: the index after i.
\* (the same loop taking every other slot)
next_slot_but_one(i) == i + 2
next_slot(i) == i + 1

\* The list is empty, or the last of its entries is cleared already.
nothing_live(list) == Len(list) = 0 \/ list[Len(list)] = ""

\* A worker whose unpack ran out of space calls _make_space(tmps, path).
Call(w) ==
    /\ wk[w].pc = "idle"
    /\ calls < MaxCalls
    /\ calls' = calls + 1
    /\ \E t \in TmpLists :
        wk' = [wk EXCEPT ![w] = [IdleWorker EXCEPT !.pc = "acquire", !.tmps = t]]
    /\ UNCHANGED <<superfluous, present, stuck, fsize, free, lock, audit>>
    /\ UNCHANGED <<serverVars, enqVars, chunkVars, procVars, restVars>>

\* lock_array: a.acquire(block=True)
\* (the same acquire not waiting for the holder)
Acquire_unguarded(w) ==
    /\ wk[w].pc = "acquire"
    /\ lock' = w
    /\ wk' = [wk EXCEPT ![w].pc = "check"]
    /\ UNCHANGED <<superfluous, present, stuck, fsize, free, calls, audit>>
    /\ UNCHANGED <<serverVars, enqVars, chunkVars, procVars, restVars>>

Acquire(w) ==
    /\ wk[w].pc = "acquire"
    /\ lock = 0
    /\ lock' = w
    /\ wk' = [wk EXCEPT ![w].pc = "check"]
    /\ UNCHANGED <<superfluous, present, stuck, fsize, free, calls, audit>>
    /\ UNCHANGED <<serverVars, enqVars, chunkVars, procVars, restVars>>

\* The bail-out test, then needed and remaining; a raise leaves the with
\* block, whose finally releases the lock.
Check(w) ==
    /\ wk[w].pc = "check"
    /\ LET snap == [wk[w] EXCEPT !.rem0 = remaining_disk,
                                 !.need0 = SumSeq(wk[w].tmps),
                                 !.reclaimable0 = Reclaimable(superfluous),
                                 !.nothing_live0 = nothing_live(superfluous)]
       IN  IF nothing_superfluous(superfluous)
           THEN /\ wk' = [wk EXCEPT ![w] = [snap EXCEPT !.pc = "raised_nothing"]]
                /\ lock' = 0
           ELSE /\ wk' = [wk EXCEPT ![w] = [snap EXCEPT
                                               !.pc = "walk",
                                               !.needed = SumSeq(wk[w].tmps),
                                               !.remaining = remaining_disk,
                                               !.i = 1]]
                /\ UNCHANGED lock
    /\ UNCHANGED <<superfluous, present, stuck, fsize, free, calls, audit>>
    /\ UNCHANGED <<serverVars, enqVars, chunkVars, procVars, restVars>>

\* os.path.getsize(t.name) or _remaining_disk(path) raises (a temporary file
\* is gone, df fails): the exception leaves the with block, whose finally
\* releases the lock, and then _make_space.
CheckRaises(w) ==
    /\ wk[w].pc = "check"
    /\ ~nothing_superfluous(superfluous)
    /\ wk' = [wk EXCEPT ![w] = [IdleWorker EXCEPT !.pc = "raised_other"]]
    /\ lock' = 0
    /\ UNCHANGED <<superfluous, present, stuck, fsize, free, calls, audit>>
    /\ UNCHANGED <<serverVars, enqVars, chunkVars, procVars, restVars>>

\* One round of `for i in range(len(superfluous))`, or the end of the loop.
Walk(w) ==
    /\ wk[w].pc = "walk"
    /\ LET me == wk[w]
           s  == superfluous[me.i]
       IN  IF me.i > Len(superfluous)
           THEN \* the loop is over: leave the with block
                /\ wk' = [wk EXCEPT ![w].pc = "after"]
                /\ lock' = 0
                /\ UNCHANGED <<superfluous, present, free, audit>>
           ELSE IF enough(me.remaining, me.needed)
           THEN \* return from inside the with block
                /\ wk' = [wk EXCEPT ![w].pc = "returned"]
                /\ lock' = 0
                /\ UNCHANGED <<superfluous, present, free, audit>>
           ELSE /\ superfluous' = clear(superfluous, me.i)
                /\ IF s # "" /\ can_remove(s)
                   THEN /\ present' = present \ {s}
                        /\ free' = free + fsize[s]
                        /\ audit' = [audit EXCEPT !.tried[me.i] = @ + 1,
                                                  !.sized[s] = @ + 1]
                        /\ wk' = [wk EXCEPT
                                    ![w].remaining = @ + fsize[s],
                                    ![w].i = next_slot(@),
                                    ![w].walked = Append(@,
                                        [i |-> me.i, s |-> s,
                                         before |-> me.remaining,
                                         gained |-> fsize[s]])]
                   ELSE \* a cleared slot, or getsize/remove raised: pass
                        /\ wk' = [wk EXCEPT
                                    ![w].i = next_slot(@),
                                    ![w].walked = Append(@,
                                        [i |-> me.i, s |-> s,
                                         before |-> me.remaining,
                                         gained |-> 0])]
                        /\ audit' = IF s # ""
                                    THEN [audit EXCEPT !.tried[me.i] = @ + 1]
                                    ELSE audit
                        /\ UNCHANGED <<present, free>>
                /\ UNCHANGED lock
    /\ UNCHANGED <<stuck, fsize, calls>>
    /\ UNCHANGED <<serverVars, enqVars, chunkVars, procVars, restVars>>

\* After the with block: still not enough?
After(w) ==
    /\ wk[w].pc = "after"
    /\ wk' = [wk EXCEPT ![w].pc =
                IF not_enough(wk[w].remaining, wk[w].needed)
                THEN "raised_space" ELSE "returned"]
    /\ UNCHANGED <<superfluous, present, stuck, fsize, free, lock, calls, audit>>
    /\ UNCHANGED <<serverVars, enqVars, chunkVars, procVars, restVars>>

Ended(w) == wk[w].pc \in {"returned", "raised_nothing", "raised_space"}

\* The call is over; the worker goes on with its job.
Leave(w) ==
    /\ Ended(w) \/ wk[w].pc = "raised_other"
    /\ wk' = [wk EXCEPT ![w] = IdleWorker]
    /\ UNCHANGED <<superfluous, present, stuck, fsize, free, lock, calls, audit>>
    /\ UNCHANGED <<serverVars, enqVars, chunkVars, procVars, restVars>>

\* =============================================================== enqueuers
\* `len(batch) == 10`: the batch size of queue.send_messages.
BatchSize == 10

\* json.dumps(x): the text of x; what json.loads gives back is x.
json_dumps(x) == <<"json", x>>

\* d.freeze_dry(): the data of a download job.
freeze_dry(d) == [type |-> "srtm", download |-> d]

\* The MessageBody of the entry for job r.
enqueuer_body(r) == json_dumps(r)
downloads_body(d) == json_dumps([job |-> "download", data |-> freeze_dry(d)])

\* dict(Id=str(idx), MessageBody=...)
\* (the same with the Id counted within the batch)
entry_in_batch(idx, body) ==
    [Id |-> ToString(idx % BatchSize), MessageBody |-> body]
entry(idx, body) == [Id |-> ToString(idx), MessageBody |-> body]

\* What queue.send_messages can answer: no 'Failed' key, an empty Failed
\* list, or a Failed list naming an entry of the batch.
SendResults(batch) ==
    {[has_failed |-> FALSE, Failed |-> <<>>],
     [has_failed |-> TRUE,  Failed |-> <<>>],
     [has_failed |-> TRUE,  Failed |-> <<[Id |-> batch[1].Id]>>]}

\* `if 'Failed' in result and result['Failed']`
reports_failed(result) == result.has_failed /\ result.Failed # <<>>

\* `if len(batch) == 10`
\* (the same test one entry later)
batch_oversized(batch) == Len(batch) = BatchSize + 1
batch_full(batch) == Len(batch) = BatchSize

\* A send whose result is looked at: logger.warning when entries failed.
checked_send(batch, result) ==
    [Entries |-> batch, result |-> result, logged |-> reports_failed(result)]

\* A send whose result is dropped.
unchecked_send(batch, result) ==
    [Entries |-> batch, result |-> result, logged |-> FALSE]

EnqParked ==
    /\ enq_which = None
    /\ enq_jobs = <<>>
    /\ enq_pos = 0
    /\ enq_batch = <<>>
    /\ enq_idx = 0
    /\ enq_sent = <<>>
    /\ enq_pc = "off"

EnqInit ==
    /\ enq_which \in {"joerd_enqueuer", "joerd_enqueue_downloads"}
    /\ \E n \in 0..MaxJobs : enq_jobs = [k \in 1..n |-> k]
    /\ enq_pos = 0
    /\ enq_batch = <<>>
    /\ enq_idx = 0
    /\ enq_sent = <<>>
    /\ enq_pc = "loop"

\* joerd_enqueuer, one round of `for r in jobs`: send a full batch first,
\* then append the entry of r.
EnqueuerIteration ==
    /\ enq_which = "joerd_enqueuer"
    /\ enq_pc = "loop"
    /\ enq_pos < Len(enq_jobs)
    /\ LET r == enq_jobs[enq_pos + 1]
           e == entry(enq_idx, enqueuer_body(r))
       IN  IF batch_full(enq_batch)
           THEN \E result \in SendResults(enq_batch) :
                   /\ enq_sent' = Append(enq_sent, checked_send(enq_batch, result))
                   /\ enq_batch' = <<e>>
           ELSE /\ enq_batch' = Append(enq_batch, e)
                /\ UNCHANGED enq_sent
    /\ enq_idx' = enq_idx + 1
    /\ enq_pos' = enq_pos + 1
    /\ UNCHANGED <<enq_which, enq_jobs, enq_pc>>
    /\ UNCHANGED <<serverVars, spaceVars, chunkVars, procVars, restVars>>

\* joerd_enqueuer after the loop: the rest is sent, its result not kept.
EnqueuerFlush ==
    /\ enq_which = "joerd_enqueuer"
    /\ enq_pc = "loop"
    /\ enq_pos = Len(enq_jobs)
    /\ IF Len(enq_batch) > 0
       THEN \E result \in SendResults(enq_batch) :
               enq_sent' = Append(enq_sent, unchecked_send(enq_batch, result))
       ELSE UNCHANGED enq_sent
    /\ enq_pc' = "done"
    /\ UNCHANGED <<enq_which, enq_jobs, enq_pos, enq_batch, enq_idx>>
    /\ UNCHANGED <<serverVars, spaceVars, chunkVars, procVars, restVars>>

\* joerd_enqueue_downloads, one round of `for d in downloads`: append the
\* entry of d, then send the batch if it is full.
DownloadsIteration ==
    /\ enq_which = "joerd_enqueue_downloads"
    /\ enq_pc = "loop"
    /\ enq_pos < Len(enq_jobs)
    /\ LET d == enq_jobs[enq_pos + 1]
           b == Append(enq_batch, entry(enq_idx, downloads_body(d)))
       IN  IF batch_full(b)
           THEN \E result \in SendResults(b) :
                   /\ enq_sent' = Append(enq_sent, checked_send(b, result))
                   /\ enq_batch' = <<>>
           ELSE /\ enq_batch' = b
                /\ UNCHANGED enq_sent
    /\ enq_idx' = enq_idx + 1
    /\ enq_pos' = enq_pos + 1
    /\ UNCHANGED <<enq_which, enq_jobs, enq_pc>>
    /\ UNCHANGED <<serverVars, spaceVars, chunkVars, procVars, restVars>>

\* joerd_enqueue_downloads after the loop: the rest is sent and checked.
DownloadsFlush ==
    /\ enq_which = "joerd_enqueue_downloads"
    /\ enq_pc = "loop"
    /\ enq_pos = Len(enq_jobs)
    /\ IF Len(enq_batch) > 0
       THEN \E result \in SendResults(enq_batch) :
               enq_sent' = Append(enq_sent, checked_send(enq_batch, result))
       ELSE UNCHANGED enq_sent
    /\ enq_pc' = "done"
    /\ UNCHANGED <<enq_which, enq_jobs, enq_pos, enq_batch, enq_idx>>
    /\ UNCHANGED <<serverVars, spaceVars, chunkVars, procVars, restVars>>

\* ============================================================== chunk size
\* The chunksize settings of a config: None, or a number.
ChunkSettings ==
    {[is_none |-> TRUE, value |-> 0],
     [is_none |-> FALSE, value |-> 1],
     [is_none |-> FALSE, value |-> 5]}

Max(a, b) == IF a >= b THEN a ELSE b

\* Python 2 `/` on two ints: floor division.
int_div(a, b) == a \div b

\* Joerd._chunksize(length)
\* (the same without the max(1, ...))
chunksize_no_floor(length) ==
    IF ~cs_chunksize.is_none THEN cs_chunksize.value
    ELSE int_div(int_div(length, cs_num_threads), 8)
chunksize(length) ==
    IF ~cs_chunksize.is_none THEN cs_chunksize.value
    ELSE Max(1, int_div(int_div(length, cs_num_threads), 8))

NoCall == [called |-> FALSE, length |-> 0, result |-> 0]

ChunkParked ==
    /\ cs_chunksize = [is_none |-> TRUE, value |-> 0]
    /\ cs_num_threads = 0
    /\ cs_call = NoCall

\* Joerd.__init__: num_threads and chunksize from the config.
ChunkInit ==
    /\ cs_chunksize \in ChunkSettings
    /\ cs_num_threads \in 1..MaxThreads
    /\ cs_call = NoCall

\* self._chunksize(len(tiles)), as Joerd.process calls it.
chunksize_call ==
    /\ cs_num_threads > 0
    /\ \E length \in 0..MaxLength :
        cs_call' = [called |-> TRUE, length |-> length,
                    result |-> chunksize(length)]
    /\ UNCHANGED <<cs_chunksize, cs_num_threads>>
    /\ UNCHANGED <<serverVars, spaceVars, enqVars, procVars, restVars>>

\* ===================================================== download resolution
\* self.sources.itervalues(): the configured sources, in the dict's order.
Sources == <<"srtm", "ned">>

\* The downloads each source can answer with, and their output_file().
DownloadsOf(source) == IF source = "srtm" THEN {"d1", "d2"} ELSE {"d3"}

output_file(d) == CASE d = "d1" -> "a" [] d = "d2" -> "b" [] d = "d3" -> "c"

SourcePaths == {"a", "b", "c"}

\* A list holding each element of S once.
RECURSIVE ListOf(_)
ListOf(S) ==
    IF S = {} THEN <<>>
    ELSE LET x == CHOOSE y \in S : TRUE IN <<x>> \o ListOf(S \ {x})

\* `if d:` a non-empty answer of downloads_for
\* (the same with the test left out)
intersects_always(d) == TRUE
intersects(d) == d # {}

\* The inner loop over the sources for one tile: (downloads, tile_sources)
\* after the first k sources, given what downloads_for answered.
RECURSIVE resolve_tile(_, _, _)
resolve_tile(answers, downloads, k) ==
    IF k = 0 THEN [downloads |-> downloads, tile_sources |-> <<>>]
    ELSE LET before == resolve_tile(answers, downloads, k - 1)
             d      == answers[Sources[k]]
         IN  IF intersects(d)
             THEN [downloads |-> before.downloads \cup d,
                   tile_sources |-> Append(before.tile_sources, Sources[k])]
             ELSE before

\* `existing not in need_on_disk`
\* (the same against need_to_download instead of need_on_disk)
not_needed_to_download(existing) ==
    existing \notin {output_file(d) : d \in Range(pr_need.to_download)}
not_needed(existing) == existing \notin pr_need.on_disk

\* The superfluous list from the existing files of the first k sources.
RECURSIVE superfluous_files(_, _)
superfluous_files(existing_files, k) ==
    IF k = 0 THEN <<>>
    ELSE superfluous_files(existing_files, k - 1)
         \o SelectSeq(ListOf(existing_files[Sources[k]]), not_needed)

ProcParked ==
    /\ pr_pc = "off"
    /\ pr_tiles = 0
    /\ pr_returned = <<>>
    /\ pr_set_sources = <<>>
    /\ pr_downloads = {}
    /\ pr_need = [on_disk |-> {}, to_download |-> <<>>]
    /\ pr_superfluous = <<>>
    /\ pr_index = <<>>
    /\ pr_early = FALSE

\* Joerd.process up to `downloads = set()`: the tiles are generated.
ProcInit ==
    /\ pr_pc = "resolve"
    /\ pr_tiles \in 0..MaxTiles
    /\ pr_returned = <<>>
    /\ pr_set_sources = [t \in 1..pr_tiles |-> <<>>]
    /\ pr_downloads = {}
    /\ pr_need = [on_disk |-> {}, to_download |-> <<>>]
    /\ pr_superfluous = <<>>
    /\ pr_index = [s \in Range(Sources) |-> 0]
    /\ pr_early = FALSE

\* A downloads_for call is made now: is some source still without its index?
index_missing == \E s \in Range(Sources) : pr_index[s] = 0

\* One round of `for tile in tiles`, set_sources included.
ResolveTile ==
    /\ pr_pc = "resolve"
    /\ Len(pr_returned) < pr_tiles
    /\ LET tile == Len(pr_returned) + 1
       IN  \E answers \in [Range(Sources) -> SUBSET {"d1", "d2", "d3"}] :
             /\ \A s \in Range(Sources) : answers[s] \subseteq DownloadsOf(s)
             /\ LET r == resolve_tile(answers, pr_downloads, Len(Sources))
                IN  /\ pr_downloads' = r.downloads
                    /\ pr_set_sources' =
                         [pr_set_sources EXCEPT ![tile] = Append(@, r.tile_sources)]
             /\ pr_returned' = Append(pr_returned, answers)
    /\ pr_early' = (pr_early \/ index_missing)
    /\ UNCHANGED <<pr_pc, pr_tiles, pr_need, pr_superfluous, pr_index>>
    /\ UNCHANGED <<serverVars, spaceVars, enqVars, chunkVars, restVars>>

\* `for download in downloads`: need_on_disk and need_to_download.
NeedToDownload ==
    /\ pr_pc = "resolve"
    /\ Len(pr_returned) = pr_tiles
    /\ \E isfile \in SUBSET SourcePaths :
        pr_need' = [on_disk |-> {output_file(d) : d \in pr_downloads},
                    to_download |->
                        SelectSeq(ListOf(pr_downloads),
                                  LAMBDA d : output_file(d) \notin isfile)]
    /\ pr_pc' = "superfluous"
    /\ UNCHANGED <<pr_tiles, pr_returned, pr_set_sources, pr_downloads,
                   pr_superfluous, pr_index, pr_early>>
    /\ UNCHANGED <<serverVars, spaceVars, enqVars, chunkVars, restVars>>

\* `for source in self.sources.itervalues()`: the superfluous list.
Superfluous ==
    /\ pr_pc = "superfluous"
    /\ \E existing_files \in [Range(Sources) -> SUBSET SourcePaths] :
        pr_superfluous' = superfluous_files(existing_files, Len(Sources))
    /\ pr_pc' = "done"
    /\ UNCHANGED <<pr_tiles, pr_returned, pr_set_sources, pr_downloads, pr_need,
                   pr_index, pr_early>>
    /\ UNCHANGED <<serverVars, spaceVars, enqVars, chunkVars, restVars>>

\* Joerd.list_downloads up to its first loop; the regions are expanded
\* after the indexes are fetched, pr_tiles of them.
ListInit ==
    /\ pr_pc = "index"
    /\ pr_tiles \in 0..MaxTiles
    /\ pr_returned = <<>>
    /\ pr_set_sources = [t \in 1..pr_tiles |-> <<>>]
    /\ pr_downloads = {}
    /\ pr_need = [on_disk |-> {}, to_download |-> <<>>]
    /\ pr_superfluous = <<>>
    /\ pr_index = [s \in Range(Sources) |-> 0]
    /\ pr_early = FALSE

\* `for source in self.sources.itervalues(): source.get_index()`
GetIndexes ==
    /\ pr_pc = "index"
    /\ pr_index' = [s \in Range(Sources) |-> pr_index[s] + 1]
    /\ pr_pc' = "list"
    /\ UNCHANGED <<pr_tiles, pr_returned, pr_set_sources, pr_downloads, pr_need,
                   pr_superfluous, pr_early>>
    /\ UNCHANGED <<serverVars, spaceVars, enqVars, chunkVars, restVars>>

\* list_downloads, one round of `for tile in expanded_regions`.
ListTile ==
    /\ pr_pc = "list"
    /\ Len(pr_returned) < pr_tiles
    /\ \E answers \in [Range(Sources) -> SUBSET {"d1", "d2", "d3"}] :
         /\ \A s \in Range(Sources) : answers[s] \subseteq DownloadsOf(s)
         /\ pr_downloads' =
              resolve_tile(answers, pr_downloads, Len(Sources)).downloads
         /\ pr_returned' = Append(pr_returned, answers)
    /\ pr_early' = (pr_early \/ index_missing)
    /\ UNCHANGED <<pr_pc, pr_tiles, pr_set_sources, pr_need, pr_superfluous,
                   pr_index>>
    /\ UNCHANGED <<serverVars, spaceVars, enqVars, chunkVars, restVars>>

\* `return downloads`
ListReturn ==
    /\ pr_pc = "list"
    /\ Len(pr_returned) = pr_tiles
    /\ pr_pc' = "returned"
    /\ UNCHANGED <<pr_tiles, pr_returned, pr_set_sources, pr_downloads, pr_need,
                   pr_superfluous, pr_index, pr_early>>
    /\ UNCHANGED <<serverVars, spaceVars, enqVars, chunkVars, restVars>>

\* ============================================================= render jobs
NoException == [type |-> None, text |-> <<>>]

NoRender ==
    [pc |-> "idle", tile |-> 0, tmpdir |-> "none", render |-> "not run",
     uploads |-> 0, upload |-> "not run", exc_info |-> None,
     raised |-> NoException]

\* traceback.format_exception(*sys.exc_info()) joined: the text of the trace
\* of the exception being handled.
format_exception(e) == <<"Traceback (most recent call last):", e>>

\* `except: raise Exception("".join(...))`
reraise(e) == [type |-> "Exception", text |-> format_exception(e)]

\* The with block after t.render(d): the next statement, or the way out.
\* (the same going on to the upload whatever render did)
after_render_regardless(ok) == "upload"
after_render(ok) == IF ok THEN "upload" ELSE "except"

\* tmpdir.tmpdir() leaving its with block, normally or by an exception: the
\* directory is removed.
tmpdir_exit == "released"

RenderParked ==
    /\ rn_tiles = 0
    /\ rn_outcomes = <<>>
    /\ rn = NoRender

\* p.map(_renderstar, [(t, self.store) for t in tiles])
RenderInit ==
    /\ rn_tiles \in 0..MaxRender
    /\ rn_outcomes = <<>>
    /\ rn = NoRender

\* _render(t, store) is called for the next tile; tmpdir.tmpdir() is entered,
\* or raises before there is a directory.
RenderEnter ==
    /\ rn.pc \in {"idle", "exited"}
    /\ Len(rn_outcomes) < rn_tiles
    /\ \E ok \in BOOLEAN :
        rn' = IF ok
              THEN [NoRender EXCEPT !.pc = "render",
                                    !.tile = Len(rn_outcomes) + 1,
                                    !.tmpdir = "held"]
              ELSE [NoRender EXCEPT !.pc = "except",
                                    !.tile = Len(rn_outcomes) + 1,
                                    !.exc_info = "tmpdir error"]
    /\ UNCHANGED <<rn_tiles, rn_outcomes>>
    /\ UNCHANGED <<serverVars, spaceVars, enqVars, chunkVars, procVars, progVars,
                   fleetVars>>

\* t.render(d)
RenderTile ==
    /\ rn.pc = "render"
    /\ \E ok \in BOOLEAN :
        rn' = IF after_render(ok) = "upload"
              THEN [rn EXCEPT !.pc = "upload",
                              !.render = IF ok THEN "ok" ELSE "raised"]
              ELSE [rn EXCEPT !.pc = "except",
                              !.render = "raised",
                              !.tmpdir = tmpdir_exit,
                              !.exc_info = "render error"]
    /\ UNCHANGED <<rn_tiles, rn_outcomes>>
    /\ UNCHANGED <<serverVars, spaceVars, enqVars, chunkVars, procVars, progVars,
                   fleetVars>>

\* store.upload_all(d), then the end of the with block.
RenderUpload ==
    /\ rn.pc = "upload"
    /\ \E ok \in BOOLEAN :
        /\ rn' = IF ok
                 THEN [rn EXCEPT !.pc = "exited",
                                 !.uploads = @ + 1,
                                 !.upload = "ok",
                                 !.tmpdir = tmpdir_exit]
                 ELSE [rn EXCEPT !.pc = "except",
                                 !.uploads = @ + 1,
                                 !.upload = "raised",
                                 !.tmpdir = tmpdir_exit,
                                 !.exc_info = "upload error"]
        /\ rn_outcomes' = IF ok THEN Append(rn_outcomes, "returned")
                          ELSE rn_outcomes
    /\ UNCHANGED rn_tiles
    /\ UNCHANGED <<serverVars, spaceVars, enqVars, chunkVars, procVars, progVars,
                   fleetVars>>

\* The except clause: the exception goes to the caller as a new Exception
\* whose message is the trace.
RenderExcept ==
    /\ rn.pc = "except"
    /\ rn' = [rn EXCEPT !.pc = "exited", !.raised = reraise(rn.exc_info)]
    /\ rn_outcomes' = Append(rn_outcomes, "raised")
    /\ UNCHANGED rn_tiles
    /\ UNCHANGED <<serverVars, spaceVars, enqVars, chunkVars, procVars, progVars,
                   fleetVars>>

\* ======================================================== progress logging
\* pct_interval and time_interval as a caller can give them; 5 and 10 are
\* the defaults.
PctIntervals == {5, 25}
TimeIntervals == {2, 10}

\* Percentages are kept exact: a percentage x is held as x * total, so that
\* pct = (100.0 * progress) / total is held as 100 * progress.
pct_of(progress) == 100 * progress

\* `pct > self.next_pct or now > self.next_time`
crossed(pct, now) == pct > pl.next_pct \/ now > pl.next_time

NoIncrement ==
    [called |-> FALSE, amount |-> 0, before |-> 0, advanced |-> 0,
     elapsed |-> 0, logged |-> FALSE]

NoLogger ==
    [total |-> 0, progress |-> 0, time_interval |-> 0, pct_interval |-> 0,
     next_time |-> 0, next_pct |-> 0, last_pct |-> 0, last_time |-> 0,
     lines |-> 0]

ProgressParked ==
    /\ pl = NoLogger
    /\ pl_now = 0
    /\ pl_call = NoIncrement

\* ProgressLogger.__init__
ProgressInit ==
    /\ pl_now = 0
    /\ \E total \in 1..MaxTotal, ti \in TimeIntervals, pi \in PctIntervals :
        pl = [total |-> total, progress |-> 0,
              time_interval |-> ti, pct_interval |-> pi,
              next_time |-> pl_now + ti, next_pct |-> pi * total,
              last_pct |-> 0, last_time |-> pl_now, lines |-> 0]
    /\ pl_call = NoIncrement

\* ProgressLogger.increment(amount)
Increment ==
    \E amount \in 0..MaxAmount :
        /\ pl.progress + amount <= pl.total
        /\ LET progress == pl.progress + amount
               pct      == pct_of(progress)
               now      == pl_now
               log      == crossed(pct, now)
           IN  /\ pl' = IF log
                        THEN [pl EXCEPT
                                !.progress = progress,
                                !.next_pct = pct + pl.pct_interval * pl.total,
                                !.next_time = now + pl.time_interval,
                                !.last_pct = pct,
                                !.last_time = now,
                                !.lines = IF @ < pl.total THEN @ + 1 ELSE @]
                        ELSE [pl EXCEPT !.progress = progress]
               /\ pl_call' = [called |-> TRUE, amount |-> amount,
                              before |-> pl.progress,
                              advanced |-> pct - pl.last_pct,
                              elapsed |-> now - pl.last_time,
                              logged |-> log]
        /\ UNCHANGED pl_now
        /\ UNCHANGED <<serverVars, spaceVars, enqVars, chunkVars, procVars,
                       renderVars, fleetVars>>

\* The clock moves on between two calls.
Tick ==
    /\ pl_now < MaxTime
    /\ pl_now' = pl_now + 1
    /\ UNCHANGED <<pl, pl_call>>
    /\ UNCHANGED <<serverVars, spaceVars, enqVars, chunkVars, procVars,
                   renderVars, fleetVars>>

\* ==================================================== several queue workers
\* Independent joerd_server processes polling one queue.
QueueWorkers == {1, 2}

FleetMsgs == 1..MaxFleetMsgs

\* What the download of a message does, every time it is tried: "sound"
\* fetches, unpacks and is found in the store; "failing" raises in the fetch;
\* "poison" raises in every unpack.
DownloadKinds == {"sound", "failing", "poison"}

NoWork == [pc |-> "poll", cur |-> 0, errors |-> 0]

FleetParked ==
    /\ fl_kind = <<>>
    /\ fl_state = <<>>
    /\ fl_w = <<>>
    /\ fl_done = <<>>
    /\ fl_crashes = 0

FleetInit ==
    /\ fl_kind \in [FleetMsgs -> DownloadKinds]
    /\ fl_state = [m \in FleetMsgs |-> "visible"]
    /\ fl_w = [w \in QueueWorkers |-> NoWork]
    /\ fl_done = [m \in FleetMsgs |-> FALSE]
    /\ fl_crashes = 0

\* queue.receive_messages() with no arguments: at most one message, which is
\* in flight from then on. (An empty answer changes nothing.)
FleetReceive(w, m) ==
    /\ fl_w[w].pc = "poll"
    /\ fl_state[m] = "visible"
    /\ fl_state' = [fl_state EXCEPT ![m] = "inflight"]
    /\ fl_w' = [fl_w EXCEPT ![w] = [NoWork EXCEPT !.pc = "handle", !.cur = m]]
    /\ UNCHANGED <<fl_kind, fl_done, fl_crashes>>
    /\ UNCHANGED <<serverVars, spaceVars, enqVars, chunkVars, procVars,
                   renderVars, progVars>>

\* The queue's visibility timeout: an undeleted message is visible again,
\* whatever the worker that received it is doing.
FleetTimeout(m) ==
    /\ fl_state[m] = "inflight"
    /\ fl_state' = [fl_state EXCEPT ![m] = "visible"]
    /\ UNCHANGED <<fl_kind, fl_w, fl_done, fl_crashes>>
    /\ UNCHANGED <<serverVars, spaceVars, enqVars, chunkVars, procVars,
                   renderVars, progVars>>

\* Decode, rehydrate and the fetches of _download: a fetch that raises is
\* re-raised, joerd_server warns and goes back to polling.
FleetHandle(w) ==
    /\ fl_w[w].pc = "handle"
    /\ fl_w' = [fl_w EXCEPT ![w] =
                    IF fl_kind[fl_w[w].cur] = "failing" THEN NoWork
                    ELSE [@ EXCEPT !.pc = "unpack"]]
    /\ UNCHANGED <<fl_kind, fl_state, fl_done, fl_crashes>>
    /\ UNCHANGED <<serverVars, spaceVars, enqVars, chunkVars, procVars,
                   renderVars, progVars>>

\* d.unpack raises inside `while True`: logged, and round again.
FleetUnpackRaises(w) ==
    /\ fl_w[w].pc = "unpack"
    /\ fl_kind[fl_w[w].cur] = "poison"
    /\ fl_w' = [fl_w EXCEPT ![w].errors = log_error(@)]
    /\ UNCHANGED <<fl_kind, fl_state, fl_done, fl_crashes>>
    /\ UNCHANGED <<serverVars, spaceVars, enqVars, chunkVars, procVars,
                   renderVars, progVars>>

\* d.unpack returns and store.exists(output_file) holds: _download returns.
FleetUnpackReturns(w) ==
    /\ fl_w[w].pc = "unpack"
    /\ fl_kind[fl_w[w].cur] = "sound"
    /\ fl_w' = [fl_w EXCEPT ![w].pc = "delete"]
    /\ fl_done' = [fl_done EXCEPT ![fl_w[w].cur] = TRUE]
    /\ UNCHANGED <<fl_kind, fl_state, fl_crashes>>
    /\ UNCHANGED <<serverVars, spaceVars, enqVars, chunkVars, procVars,
                   renderVars, progVars>>

\* message.delete()
FleetDelete(w) ==
    /\ fl_w[w].pc = "delete"
    /\ fl_state' = [fl_state EXCEPT ![fl_w[w].cur] = "deleted"]
    /\ fl_w' = [fl_w EXCEPT ![w] = NoWork]
    /\ UNCHANGED <<fl_kind, fl_done, fl_crashes>>
    /\ UNCHANGED <<serverVars, spaceVars, enqVars, chunkVars, procVars,
                   renderVars, progVars>>

\* The worker process is killed, wherever it is; what it held stays in
\* flight.
FleetCrash(w) ==
    /\ fl_w[w].pc # "crashed"
    /\ fl_crashes < MaxCrashes
    /\ fl_crashes' = fl_crashes + 1
    /\ fl_w' = [fl_w EXCEPT ![w] = [NoWork EXCEPT !.pc = "crashed"]]
    /\ UNCHANGED <<fl_kind, fl_state, fl_done>>
    /\ UNCHANGED <<serverVars, spaceVars, enqVars, chunkVars, procVars,
                   renderVars, progVars>>

\* The worker process is started again: joerd_server from its top.
FleetRestart(w) ==
    /\ fl_w[w].pc = "crashed"
    /\ fl_w' = [fl_w EXCEPT ![w] = NoWork]
    /\ UNCHANGED <<fl_kind, fl_state, fl_done, fl_crashes>>
    /\ UNCHANGED <<serverVars, spaceVars, enqVars, chunkVars, procVars,
                   renderVars, progVars>>

\* ========================================================== specifications
\* The steps of the worker process itself.
ServerStep == Receive \/ HandleMessage \/ UnpackRaises \/ UnpackReturns

InitServer ==
    ServerInit /\ SpaceParked /\ EnqParked /\ ChunkParked /\ ProcParked /\ RenderParked
        /\ ProgressParked
        /\ FleetParked

NextServer ==
    \/ Receive
    \/ HandleMessage
    \/ UnpackRaises
    \/ UnpackReturns
    \/ VisibilityTimeout

SpecServer == InitServer /\ [][NextServer]_vars

\* The worker process keeps running whenever it can: the only fairness the
\* code gives. Nothing makes unpack succeed, or the queue redeliver.
FairServer == SpecServer /\ WF_vars(ServerStep)

InitSpace ==
    ServerParked /\ SpaceInit /\ EnqParked /\ ChunkParked /\ ProcParked /\ RenderParked
        /\ ProgressParked
        /\ FleetParked

NextSpace ==
    \E w \in Workers :
        \/ Call(w)
        \/ Acquire(w)
        \/ Check(w)
        \/ CheckRaises(w)
        \/ Walk(w)
        \/ After(w)
        \/ Leave(w)

SpecSpace == InitSpace /\ [][NextSpace]_vars

InitEnq ==
    ServerParked /\ SpaceParked /\ EnqInit /\ ChunkParked /\ ProcParked /\ RenderParked
        /\ ProgressParked
        /\ FleetParked

NextEnq ==
    \/ EnqueuerIteration
    \/ EnqueuerFlush
    \/ DownloadsIteration
    \/ DownloadsFlush

SpecEnq == InitEnq /\ [][NextEnq]_vars

InitChunk ==
    ServerParked /\ SpaceParked /\ EnqParked /\ ChunkInit /\ ProcParked /\ RenderParked
        /\ ProgressParked
        /\ FleetParked

NextChunk == chunksize_call

SpecChunk == InitChunk /\ [][NextChunk]_vars

InitProc ==
    ServerParked /\ SpaceParked /\ EnqParked /\ ChunkParked /\ ProcInit /\ RenderParked
        /\ ProgressParked
        /\ FleetParked

NextProc ==
    \/ ResolveTile
    \/ NeedToDownload
    \/ Superfluous

SpecProc == InitProc /\ [][NextProc]_vars

InitList ==
    ServerParked /\ SpaceParked /\ EnqParked /\ ChunkParked /\ ListInit /\ RenderParked
        /\ ProgressParked
        /\ FleetParked

NextList ==
    \/ GetIndexes
    \/ ListTile
    \/ ListReturn

SpecList == InitList /\ [][NextList]_vars

InitRender ==
    ServerParked /\ SpaceParked /\ EnqParked /\ ChunkParked /\ ProcParked
        /\ RenderInit
        /\ ProgressParked
        /\ FleetParked

NextRender ==
    \/ RenderEnter
    \/ RenderTile
    \/ RenderUpload
    \/ RenderExcept

SpecRender == InitRender /\ [][NextRender]_vars

InitProgress ==
    ServerParked /\ SpaceParked /\ EnqParked /\ ChunkParked /\ ProcParked
        /\ RenderParked /\ ProgressInit
        /\ FleetParked

NextProgress ==
    \/ Increment
    \/ Tick

SpecProgress == InitProgress /\ [][NextProgress]_vars

InitFleet ==
    ServerParked /\ SpaceParked /\ EnqParked /\ ChunkParked /\ ProcParked
        /\ RenderParked /\ ProgressParked /\ FleetInit

\* What a running worker does by itself, and its restart by whoever runs it.
FleetStep(w) ==
    \/ FleetHandle(w)
    \/ FleetUnpackRaises(w)
    \/ FleetUnpackReturns(w)
    \/ FleetDelete(w)
    \/ FleetRestart(w)

NextFleet ==
    \/ \E w \in QueueWorkers, m \in FleetMsgs : FleetReceive(w, m)
    \/ \E m \in FleetMsgs : FleetTimeout(m)
    \/ \E w \in QueueWorkers : FleetHandle(w)
    \/ \E w \in QueueWorkers : FleetUnpackRaises(w)
    \/ \E w \in QueueWorkers : FleetUnpackReturns(w)
    \/ \E w \in QueueWorkers : FleetDelete(w)
    \/ \E w \in QueueWorkers : FleetCrash(w)
    \/ \E w \in QueueWorkers : FleetRestart(w)

SpecFleet == InitFleet /\ [][NextFleet]_vars

\* Every worker goes on running, a visibility timeout expires, and a visible
\* message is not passed over for ever when workers keep polling.
FairFleet ==
    /\ SpecFleet
    /\ \A w \in QueueWorkers : WF_vars(FleetStep(w))
    /\ \A m \in FleetMsgs : WF_vars(FleetTimeout(m))
    /\ \A m \in FleetMsgs : SF_vars(\E w \in QueueWorkers : FleetReceive(w, m))

\* =================================================================== claims
\* ------------------------------------------------- claims on the queue worker
JobRaised ==
    \/ delivery.rehydrate_raised
    \/ delivery.fetch_raised
    \/ delivery.unpack_raised
    \/ delivery.exists_failed

\* C1: for a received download message, message.delete() is called exactly
\* once when rehydrate and _download complete without raising, and is never
\* called for that delivery when rehydrate, fetch, unpack or the exists check
\* raised.
C1_DeleteIffNothingRaised ==
    (delivery.kind = "download" /\ delivery.finished) =>
        /\ (delivery.completed => delivery.deletes = 1)
        /\ (JobRaised => delivery.deletes = 0)

\* C2: once the download job of a received message has failed (a job whose
\* unpack raised included), or its kind is not 'download', the poll loop
\* eventually finishes with that message and goes on to the next one.
C2_FailedJobMovesOn ==
    [](((delivery.kind = "download" /\ JobRaised) \/ delivery.kind = "other")
        => <>delivery.finished)

\* C3: no received message, whatever its body, makes an exception escape the
\* poll loop of joerd_server.
C3_NoExceptionEscapes == srv_pc # "crashed"

\* ------------------------------------------------------ claims on eviction
\* The bytes the walk of worker w has gained so far.
Gained(w) == SumSeq([k \in DOMAIN wk[w].walked |-> wk[w].walked[k].gained])

\* C4: a _make_space call made when remaining < needed, with live entries of
\* total reclaimable size S, returns normally iff remaining + S >= needed and
\* raises otherwise; with an empty list it raises and deletes nothing.
C4_ReturnsIffReclaimable ==
    \A w \in Workers :
        (Ended(w) /\ wk[w].rem0 < wk[w].need0) =>
            /\ (wk[w].pc = "returned")
                 <=> (wk[w].rem0 + wk[w].reclaimable0 >= wk[w].need0)
            /\ (Len(superfluous) = 0) =>
                 (wk[w].pc = "raised_space" /\ wk[w].walked = <<>>)

\* One call evicted its way to enough space while another call, short of
\* space as well, ended in the error.
C4_Witness ==
    \E w, v \in Workers :
        /\ wk[w].pc = "returned"
        /\ wk[w].rem0 < wk[w].need0
        /\ Gained(w) > 0
        /\ wk[v].pc \in {"raised_space", "raised_nothing"}
        /\ wk[v].rem0 < wk[v].need0

\* C5: within one call the slots are taken strictly in list order, each one
\* only while remaining is still below needed; the walk stops at the first
\* point where remaining >= needed, so what was deleted is the shortest
\* prefix of the list that brings remaining up to needed.
C5_ShortestPrefix ==
    \A w \in Workers :
        LET me == wk[w] IN
            /\ \A k \in DOMAIN me.walked :
                    /\ me.walked[k].i = k
                    /\ me.walked[k].before < me.needed
            /\ (me.pc \in {"walk", "after", "returned", "raised_space"}) =>
                    me.remaining = me.rem0 + Gained(w)
            /\ (me.pc \in {"after", "returned", "raised_space"}
                  /\ Len(me.walked) < Len(superfluous)) =>
                    me.remaining >= me.needed

\* A call that stopped early: it deleted something and left a live entry.
C5_Witness ==
    \E w \in Workers :
        /\ wk[w].pc = "returned"
        /\ Gained(w) > 0
        /\ Len(wk[w].walked) < Len(superfluous)
        /\ superfluous[Len(wk[w].walked) + 1] # ""

\* --------------------------------------------------- claims on the enqueuers
RECURSIVE SentEntries(_)
SentEntries(sent) ==
    IF sent = <<>> THEN <<>>
    ELSE SentEntries(SubSeq(sent, 1, Len(sent) - 1)) \o sent[Len(sent)].Entries

ExpectedBody(k) ==
    IF enq_which = "joerd_enqueuer" THEN enqueuer_body(enq_jobs[k])
    ELSE downloads_body(enq_jobs[k])

\* C6: both enqueuers send every job exactly once, in input order, in
\* ceil(n/10) batches, none empty, each of at most 10 entries and all but the
\* last of exactly 10.
C6_BatchesOfTen ==
    /\ \A k \in DOMAIN enq_sent :
            /\ Len(enq_sent[k].Entries) \in 1..BatchSize
            /\ (k < Len(enq_sent)) => Len(enq_sent[k].Entries) = BatchSize
    /\ (enq_pc = "done") =>
            /\ Len(enq_sent) = (Len(enq_jobs) + BatchSize - 1) \div BatchSize
            /\ Len(SentEntries(enq_sent)) = Len(enq_jobs)
            /\ \A k \in DOMAIN enq_jobs :
                    SentEntries(enq_sent)[k].MessageBody = ExpectedBody(k)

\* 25 jobs went out as batches of 10, 10 and 5.
C6_Witness ==
    /\ enq_pc = "done"
    /\ Len(enq_jobs) = 25
    /\ [k \in DOMAIN enq_sent |-> Len(enq_sent[k].Entries)] = <<10, 10, 5>>

\* C7: in both enqueuers, every send whose result reports a non-empty Failed
\* list has its failed entries logged, the final short batch included, and
\* the later batches are sent all the same.
C7_FailedEntriesLogged ==
    /\ \A k \in DOMAIN enq_sent :
            reports_failed(enq_sent[k].result) => enq_sent[k].logged
    /\ (enq_pc = "done") => Len(SentEntries(enq_sent)) = Len(enq_jobs)

\* The entries made so far, in the order they were made.
EntriesMade ==
    IF enq_pc = "done" THEN SentEntries(enq_sent)
    ELSE SentEntries(enq_sent) \o enq_batch

\* C20: in both enqueuers idx counts the jobs taken so far, the Id of the
\* entry of the k-th job (from zero) is the text of k, and so the Ids of the
\* entries of a batch, and of all batches together, are pairwise distinct.
C20_IdsArePositions ==
    /\ enq_idx = enq_pos
    /\ Len(EntriesMade) = enq_pos
    /\ \A k \in DOMAIN EntriesMade : EntriesMade[k].Id = ToString(k - 1)
    /\ \A k, l \in DOMAIN EntriesMade :
            (k # l) => EntriesMade[k].Id # EntriesMade[l].Id
    /\ \A n \in DOMAIN enq_sent :
            \A k, l \in DOMAIN enq_sent[n].Entries :
                (k # l) => enq_sent[n].Entries[k].Id # enq_sent[n].Entries[l].Id

\* The third batch of 25 jobs has gone out: its first Id is 20, its last 24.
C20_Witness ==
    /\ enq_pc = "done"
    /\ Len(enq_sent) = 3
    /\ Len(enq_sent[3].Entries) = 5
    /\ enq_sent[3].Entries[1].Id = "20"
    /\ enq_sent[3].Entries[5].Id = "24"
    /\ enq_idx = 25

\* ------------------------------------------------- claims on the chunk size
\* C8: _chunksize(length) is the configured chunksize when there is one;
\* otherwise max(1, floor(floor(length / num_threads) / 8)), which is at
\* least 1, and 3 for length 100 and 4 workers.
C8_Chunksize ==
    cs_call.called =>
        IF ~cs_chunksize.is_none
        THEN cs_call.result = cs_chunksize.value
        ELSE /\ cs_call.result >= 1
             /\ \E q \in 0..cs_call.length, e \in 0..cs_call.length :
                    /\ q * cs_num_threads <= cs_call.length
                    /\ cs_call.length < (q + 1) * cs_num_threads
                    /\ 8 * e <= q
                    /\ q < 8 * (e + 1)
                    /\ cs_call.result = IF e >= 1 THEN e ELSE 1
             /\ (cs_call.length = 100 /\ cs_num_threads = 4) => cs_call.result = 3

C8_Witness ==
    /\ cs_call.called
    /\ cs_chunksize.is_none
    /\ cs_call.length = 100
    /\ cs_num_threads = 4
    /\ cs_call.result = 3

\* ----------------------------------------- claims on the download resolution
Resolved == pr_pc # "off" /\ Len(pr_returned) = pr_tiles

\* C9: after the resolution loop, every tile has had set_sources called
\* exactly once, with exactly the sources whose downloads_for answer for it
\* was non-empty, and the download set is the union of all the answers.
C9_TileSources ==
    Resolved =>
        /\ \A t \in 1..pr_tiles :
                /\ Len(pr_set_sources[t]) = 1
                /\ pr_set_sources[t][1] =
                     SelectSeq(Sources, LAMBDA s : pr_returned[t][s] # {})
        /\ pr_downloads =
             UNION {pr_returned[t][s] : t \in 1..pr_tiles, s \in Range(Sources)}

\* Two tiles resolved, one with a source that answered nothing for it.
C9_Witness ==
    /\ Resolved
    /\ pr_tiles = 2
    /\ \E t \in 1..pr_tiles :
            /\ pr_returned[t]["srtm"] = {}
            /\ pr_returned[t]["ned"] # {}
    /\ pr_downloads # {}

\* C10: no path that a resolved download produces is in the superfluous
\* list.
C10_NeededNotSuperfluous ==
    (pr_pc = "done") =>
        Range(pr_superfluous) \cap {output_file(d) : d \in pr_downloads} = {}

\* Something is superfluous while a needed file is on disk already.
C10_Witness ==
    /\ pr_pc = "done"
    /\ pr_superfluous # <<>>
    /\ pr_downloads # {}
    /\ Len(pr_need.to_download) < Cardinality(pr_downloads)

\* C11: in a run that resolves downloads, get_index() is called exactly once
\* on each configured source, and before the first downloads_for call.
C11_IndexOnceBeforeResolution ==
    /\ ~pr_early
    /\ (pr_pc \in {"superfluous", "done", "returned"}) =>
            \A s \in Range(Sources) : pr_index[s] = 1

\* C12: when unpack raises in _download the job stops with a failure: unpack
\* is not called again for that download, the download does not complete, and
\* whenever the job has ended no fetched temporary file is still held.
C12_UnpackFailureStops ==
    /\ ~delivery.retried
    /\ delivery.unpack_raised => (delivery.finished /\ ~delivery.completed)
    /\ delivery.finished => delivery.tmps = 0

\* C13: over all _make_space calls of all workers, the removal of a list
\* entry is tried at most once, the size of a file is counted at most once,
\* and an entry whose removal was tried is cleared.
C13_EachEntryTriedOnce ==
    /\ \A i \in DOMAIN audit.tried :
            /\ audit.tried[i] <= 1
            /\ (audit.tried[i] = 1) => superfluous[i] = ""
    /\ \A p \in DOMAIN audit.sized : audit.sized[p] <= 1

\* Two workers have each tried to remove an entry, the second after walking
\* over a slot the first had cleared.
C13_Witness ==
    \E w, v \in Workers :
        /\ w # v
        /\ Ended(w) /\ Ended(v)
        /\ \E k \in DOMAIN wk[w].walked : wk[w].walked[k].s # ""
        /\ \E k, l \in DOMAIN wk[v].walked :
                k < l /\ wk[v].walked[k].s = "" /\ wk[v].walked[l].s # ""
        /\ \E i, j \in DOMAIN audit.tried :
                i # j /\ audit.tried[i] = 1 /\ audit.tried[j] = 1

\* C14: a worker is between the bail-out test and the end of the walk, where
\* the list is read and written, exactly when it holds the lock; so at most
\* one worker is there, and a call that has left the with block, by return,
\* by either error or by another exception, holds no lock: when nobody is
\* inside, the lock is free for a waiting worker.
C14_AccessUnderLock ==
    /\ \A w \in Workers : (wk[w].pc \in {"check", "walk"}) <=> (lock = w)
    /\ \A w, v \in Workers :
            (wk[w].pc \in {"check", "walk"} /\ wk[v].pc \in {"check", "walk"})
                => w = v
    /\ (\A w \in Workers : wk[w].pc \notin {"check", "walk"}) => lock = 0

\* A call ended by an exception of its own while another worker, which had
\* to wait for the lock, is in the walk.
C14_Witness ==
    \E w, v \in Workers :
        /\ wk[w].pc = "raised_other"
        /\ wk[v].pc = "walk"
        /\ wk[v].walked # <<>>
        /\ lock = v

\* C15: a call that finds the list empty, or its last entry cleared, ends at
\* once in the nothing-to-delete error: it goes on to no walk and tries no
\* removal.
C15_EmptyListFailsAtOnce ==
    \A w \in Workers :
        (wk[w].pc \notin {"idle", "acquire", "check"} /\ wk[w].nothing_live0)
            => (wk[w].pc = "raised_nothing" /\ wk[w].walked = <<>>)

\* C19: the cleared slots of the list are a prefix of it: no live entry is
\* before a cleared one, so a cleared last slot means every slot is cleared.
C19_ClearedPrefix ==
    /\ \A i, j \in DOMAIN superfluous :
            (i < j /\ superfluous[j] = "") => superfluous[i] = ""
    /\ nothing_superfluous(superfluous) =>
            \A i \in DOMAIN superfluous : superfluous[i] = ""

\* A second call has walked over the slots the first cleared and cleared one
\* more; the rest of the list is live.
C19_Witness ==
    /\ Len(superfluous) = 3
    /\ superfluous[1] = "" /\ superfluous[2] = "" /\ superfluous[3] # ""
    /\ \E w \in Workers :
            /\ Len(wk[w].walked) = 2
            /\ wk[w].walked[1].s = ""
            /\ wk[w].walked[2].s # ""

\* C17: in a render job, store.upload_all is called at most once and only
\* after the tile's render completed without raising; when render or upload
\* raises, the caller gets an exception whose text is the traceback; and when
\* _render exits the temporary directory has been released, in every outcome.
C17_RenderThenUploadOnce ==
    /\ rn.uploads <= 1
    /\ (rn.uploads = 1) => rn.render = "ok"
    /\ (rn.pc = "exited") =>
            /\ rn.tmpdir # "held"
            /\ (rn.render = "raised") => rn.raised = reraise("render error")
            /\ (rn.upload = "raised") => rn.raised = reraise("upload error")
            /\ (rn.render = "ok" /\ rn.upload = "ok") =>
                    (rn.raised = NoException /\ rn.uploads = 1)

\* A job whose upload raised after a good render has exited, after a job
\* that returned.
C17_Witness ==
    /\ rn.pc = "exited"
    /\ rn.render = "ok"
    /\ rn.upload = "raised"
    /\ rn.tmpdir = "released"
    /\ rn_outcomes = <<"returned", "raised">>

\* C18: an increment call logs a line exactly when the percentage has
\* advanced by pct_interval since the last line (or the start), or more than
\* time_interval has passed since then; a call that logs sets both
\* thresholds from the current percentage and time; and progress never goes
\* down.
C18_LogsAtEachInterval ==
    pl_call.called =>
        /\ pl_call.logged <=>
                \/ pl_call.advanced >= pl.pct_interval * pl.total
                \/ pl_call.elapsed > pl.time_interval
        /\ pl_call.logged =>
                /\ pl.next_pct = pct_of(pl.progress) + pl.pct_interval * pl.total
                /\ pl.next_time = pl_now + pl.time_interval
        /\ pl.progress >= pl_call.before

\* C16: with several workers on one queue, crashes and redelivery, a message
\* is deleted only after some worker's download of it has returned (unpacked
\* and found in the store); a message that is not deleted and is in flight
\* becomes visible again; and a message whose download succeeds whenever it
\* is tried is deleted in the end.
C16_DeletedOnlyWhenDoneAndSoundInTheEnd ==
    /\ [](\A m \in FleetMsgs : (fl_state[m] = "deleted") => fl_done[m])
    /\ \A m \in FleetMsgs :
            (fl_state[m] = "inflight") ~> (fl_state[m] \in {"visible", "deleted"})
    /\ \A m \in FleetMsgs :
            [](fl_kind[m] = "sound" => <>(fl_state[m] = "deleted"))

====
